---- MODULE Spec2Model ----
(***************************************************************************)
(* Model of src/signal_io_epos.cpp: the device registry (InitDevice,       *)
(* EndDevice), the cached Read, and the AsyncTransfer polling thread.      *)
(*                                                                         *)
(* Caller threads and the polling thread interleave at the granularity of  *)
(* their accesses to the shared globals (runningDevices, isRunning,        *)
(* readingThread) and to the heap records.  The vendor driver (VCS calls) is  *)
(* the environment: every call returns a status and a value or error code  *)
(* chosen from small sets.  PrintError, which writes the text of an error  *)
(* code to stderr, changes nothing the program reads and is left out.      *)
(***************************************************************************)
EXTENDS Integers, Sequences, FiniteSets, TLC

\* ------------------------------------------------------------------ bounds
MaxDevices == 2
MaxVal == 1
MaxErr == 1
MaxChannel == 3
MaxSet == 3

\* --------------------------------------------------------------- constants
\* SIGNAL_IO_DEVICE_INVALID_ID: the sentinel InitDevice returns on failure.
InvalidId == 0
\* A field of a record that `new DeviceData` left uninitialised, or memory
\* outside the record: its content is indeterminate.
Garbage == -1

Callers == {"c1", "c2"}
Host == "c1"
\* Addresses `new DeviceData` can return.
Devices == 1..MaxDevices
\* Handles VCS_OpenDevice can return (NULL is 0).
Handles == 1..MaxDevices
NodeIds == {1}
Channels == 0..MaxChannel
\* Values the driver reports, in the lifecycle and in the data specifications.
LifeVals == {0}
DataVals == 0..MaxVal
\* Error codes a failed driver call reports, likewise.
LifeCodes == {1}
FailCodes == 1..MaxErr
\* Set-points the host writes, in halves: 0, 0.5, 1, 1.5.
SetPoints == 0..MaxSet

VARIABLES
    runningDevices,  \* std::list<DeviceData*>: sequence of record addresses
    isRunning,       \* volatile bool isRunning
    joinable,        \* readingThread.joinable()
    nThreads,        \* AsyncTransfer threads started and not yet returned
    crashed,         \* the process was ended by std::terminate or a fault
    alloc,           \* addresses of the live DeviceData records
    rec,             \* heap: address -> DeviceData
    drvOpen,         \* driver handles opened and not yet passed to VCS_CloseDevice
    opened,          \* ids the host got from InitDevice and has not passed to EndDevice
    cpc, cdev, cch, cret, cval,   \* per caller: position, device, channel, result
    cdrv,            \* per caller: the driver calls its current call has issued, in order
    tpc, tdev, itValid, iValue, sValue,   \* polling thread: position, device, iterator, locals
    passFail, cleared, uaf,       \* history of the polling thread's current service
    clearCode        \* the error code its VCS_ClearFault call produced, Garbage if none

vars == <<runningDevices, isRunning, joinable, nThreads, crashed, alloc, rec, drvOpen,
          opened, cpc, cdev, cch, cret, cval, cdrv, tpc, tdev, itValid, iValue, sValue,
          passFail, cleared, uaf, clearCode>>

regVars == <<runningDevices, isRunning, joinable, nThreads, alloc, drvOpen, opened>>
callVars == <<cpc, cdev, cch, cret, cval, cdrv>>
threadVars == <<tpc, tdev, itValid, iValue, sValue, passFail, cleared, uaf, clearCode>>

\* ------------------------------------------------------------------ helpers
DeviceData(h, n) ==
    [handle |-> h, nodeId |-> n, readStatus |-> Garbage, readErrorCode |-> Garbage,
     inputValues |-> [i \in 0..2 |-> Garbage],
     outputValues |-> [i \in 0..2 |-> Garbage],
     writeStatus |-> Garbage, writeErrorCode |-> Garbage]

FreeRec == DeviceData(0, 0)

Range(s) == {s[i] : i \in 1..Len(s)}

\* std::list::remove( value )
Remove(s, d) == SelectSeq(s, LAMBDA x : x # d)

IndexOf(s, d) == CHOOSE i \in 1..Len(s) : s[i] = d

\* The element the iterator reaches from the node holding d; 0 is end().
After(s, d) == IF IndexOf(s, d) < Len(s) THEN s[IndexOf(s, d) + 1] ELSE 0

\* begin(): the first node, 0 when the list is empty.
Begin(s) == IF Len(s) > 0 THEN s[1] ELSE 0

Min(S) == CHOOSE x \in S : \A y \in S : x <= y

Idle(c) == cpc[c] = "idle"

InCall(c, d) == cpc[c] # "idle" /\ cdev[c] = d

Call(c, pc, d, ch) ==
    /\ cpc' = [cpc EXCEPT ![c] = pc]
    /\ cdev' = [cdev EXCEPT ![c] = d]
    /\ cch' = [cch EXCEPT ![c] = ch]

Result(c, r, v) ==
    /\ cret' = [cret EXCEPT ![c] = r]
    /\ cval' = [cval EXCEPT ![c] = v]

\* One call of the vendor library: its name, the handle and node id it is
\* given, its further argument, and the status it returns.
DriverCall(name, h, n, a, st) ==
    [call |-> name, handle |-> h, nodeId |-> n, arg |-> a, status |-> st]

\* The caller's call makes these driver calls, in this order.
Issue(c, calls) == cdrv' = [cdrv EXCEPT ![c] = @ \o calls]

\* A C++ bool as the host sees it.
Bool(b) == IF b THEN 1 ELSE 0

Init ==
    /\ runningDevices = <<>>
    /\ isRunning = FALSE
    /\ joinable = FALSE
    /\ nThreads = 0
    /\ crashed = FALSE
    /\ alloc = {}
    /\ rec = [d \in Devices |-> FreeRec]
    /\ drvOpen = {}
    /\ opened = {}
    /\ cpc = [c \in Callers |-> "idle"]
    /\ cdev = [c \in Callers |-> 0]
    /\ cch = [c \in Callers |-> 0]
    /\ cret = [c \in Callers |-> 0]
    /\ cval = [c \in Callers |-> 0]
    /\ cdrv = [c \in Callers |-> <<>>]
    /\ tpc = "none"
    /\ tdev = 0
    /\ itValid = TRUE
    /\ iValue = 0
    /\ sValue = 0
    /\ passFail = FALSE
    /\ cleared = FALSE
    /\ uaf = FALSE
    /\ clearCode = Garbage

\* ------------------------------------------------------------- InitDevice
\* Lines 84-104: VCS_OpenDevice, the protocol-stack negotiation, and on success
\* the allocation of the record.  open = 0 is a NULL handle; the call fails
\* when the settings fetch succeeds (get # 0) and the push fails (set = 0), and
\* then returns without closing the handle.  cap bounds the live records.
\* The driver hands out its lowest free handle and the allocator its lowest
\* free address: handles and addresses are only ever compared for equality.
InitOpen(c, cap) ==
    /\ ~crashed
    /\ Idle(c)
    /\ Cardinality(alloc) < cap
    /\ \E open \in {0, 1}, get \in {0, 1}, set \in {0, 1}, n \in NodeIds :
         IF open = 0 \/ Handles \ drvOpen = {}
         THEN /\ Call(c, "init_ret", 0, 0)
              /\ Result(c, InvalidId, 0)
              /\ Issue(c, <<DriverCall("VCS_OpenDevice", 0, 0, 0, 0)>>)
              /\ UNCHANGED <<alloc, rec, drvOpen>>
         ELSE LET h == Min(Handles \ drvOpen)
                  fetch == <<DriverCall("VCS_OpenDevice", 0, 0, 0, 1),
                            DriverCall("VCS_GetProtocolStackSettings", h, 0, 0, get)>>
                  push == <<DriverCall("VCS_SetProtocolStackSettings", h, 0, 0, set)>>
              IN
              IF get # 0 /\ set = 0
              THEN /\ Call(c, "init_ret", 0, 0)
                   /\ Result(c, InvalidId, 0)
                   /\ Issue(c, fetch \o push)
                   /\ drvOpen' = drvOpen \cup {h}
                   /\ UNCHANGED <<alloc, rec>>
              ELSE LET d == Min(Devices \ alloc) IN
                   /\ Call(c, "init_start", d, 0)
                   /\ Issue(c, IF get # 0 THEN fetch \o push ELSE fetch)
                   /\ alloc' = alloc \cup {d}
                   /\ rec' = [rec EXCEPT ![d] = DeviceData(h, n)]
                   /\ drvOpen' = drvOpen \cup {h}
                   /\ UNCHANGED <<cret, cval>>
    /\ UNCHANGED <<runningDevices, isRunning, joinable, nThreads, crashed, opened>>
    /\ UNCHANGED threadVars

\* A registry that starts a thread for every device.
StartsThreadAlways(list) == TRUE

\* Whether InitDevice starts the polling thread (line 106).
StartsThread(list) == list = <<>>

\* Line 106: if( runningDevices.empty() ) readingThread = std::thread( AsyncTransfer ).
\* The new thread is running as soon as it is constructed; move-assigning it to
\* a readingThread that is still joinable calls std::terminate.
InitStart(c) ==
    /\ ~crashed
    /\ cpc[c] = "init_start"
    /\ IF StartsThread(runningDevices)
       THEN /\ nThreads' = nThreads + 1
            /\ IF joinable
               THEN /\ crashed' = TRUE
                    /\ UNCHANGED <<joinable, tpc, iValue, sValue>>
               ELSE /\ joinable' = TRUE
                    /\ tpc' = "start"
                    /\ iValue' = 0
                    /\ sValue' = 0
                    /\ UNCHANGED crashed
       ELSE UNCHANGED <<nThreads, crashed, joinable, tpc, iValue, sValue>>
    /\ cpc' = [cpc EXCEPT ![c] = "init_push"]
    /\ UNCHANGED <<runningDevices, isRunning, alloc, rec, drvOpen, opened>>
    /\ UNCHANGED <<cdev, cch, cret, cval, cdrv, tdev, itValid, passFail, cleared, uaf, clearCode>>

\* Lines 107-109: runningDevices.push_back( newDevice ); return newDevice.
InitPush(c) ==
    /\ ~crashed
    /\ cpc[c] = "init_push"
    /\ runningDevices' = Append(runningDevices, cdev[c])
    /\ cpc' = [cpc EXCEPT ![c] = "init_ret"]
    /\ Result(c, cdev[c], 0)
    /\ UNCHANGED <<isRunning, joinable, nThreads, crashed, alloc, rec, drvOpen, opened>>
    /\ UNCHANGED <<cdev, cch, cdrv>>
    /\ UNCHANGED threadVars

\* -------------------------------------------------------------- EndDevice
\* Line 114: the sentinel is a no-op.
EndInvalid(c) ==
    /\ ~crashed
    /\ Idle(c)
    /\ Call(c, "end_ret", InvalidId, 0)
    /\ UNCHANGED <<cret, cval, cdrv, crashed, rec>>
    /\ UNCHANGED regVars
    /\ UNCHANGED threadVars

\* The polling thread holds an iterator to the node of d.
AtNode(d) == tdev = d /\ tpc \in {"pos", "vel", "cur", "fault", "iter"}

\* Lines 116-122: VCS_CloseDevice on the record's handle (a failure is only
\* printed), then runningDevices.remove( device ), which unlinks and frees the
\* node of the record.  The host passes an id it holds, with no other call on it.
EndRemove(c) ==
    /\ ~crashed
    /\ Idle(c)
    /\ \E d \in opened :
         /\ \A c2 \in Callers : ~InCall(c2, d)
         /\ Call(c, "end_stop", d, 0)
         /\ opened' = opened \ {d}
         /\ drvOpen' = drvOpen \ {rec[d].handle}
         /\ runningDevices' = Remove(runningDevices, d)
         /\ itValid' = IF AtNode(d) THEN FALSE ELSE itValid
    /\ UNCHANGED <<isRunning, joinable, nThreads, crashed, alloc, rec, cret, cval, cdrv>>
    /\ UNCHANGED <<tpc, tdev, iValue, sValue, passFail, cleared, uaf, clearCode>>

\* Whether EndDevice stops and joins the polling thread (line 124).
StopsThread(list) == list = <<>>

\* Lines 124-126: if( runningDevices.empty() ) isRunning = false.
EndStop(c) ==
    /\ ~crashed
    /\ cpc[c] = "end_stop"
    /\ IF StopsThread(runningDevices)
       THEN /\ isRunning' = FALSE
            /\ cpc' = [cpc EXCEPT ![c] = "end_join"]
       ELSE /\ cpc' = [cpc EXCEPT ![c] = "end_delete"]
            /\ UNCHANGED isRunning
    /\ UNCHANGED <<runningDevices, joinable, nThreads, crashed, alloc, rec, drvOpen, opened>>
    /\ UNCHANGED <<cdev, cch, cret, cval, cdrv>>
    /\ UNCHANGED threadVars

\* A join that returns without waiting (a detach in its place).
JoinNoWait == TRUE

\* What readingThread.join() waits for.
JoinReady == tpc = "done"

\* Line 127: readingThread.join() blocks until AsyncTransfer has returned; on a
\* thread that is not joinable it throws std::system_error, which nothing
\* catches.
EndJoin(c) ==
    /\ ~crashed
    /\ cpc[c] = "end_join"
    /\ IF ~joinable
       THEN /\ crashed' = TRUE
            /\ UNCHANGED <<joinable, tpc>>
       ELSE /\ JoinReady
            /\ joinable' = FALSE
            /\ UNCHANGED <<crashed, tpc>>
    /\ cpc' = [cpc EXCEPT ![c] = "end_delete"]
    /\ UNCHANGED <<runningDevices, isRunning, nThreads, alloc, rec, drvOpen, opened>>
    /\ UNCHANGED <<cdev, cch, cret, cval, cdrv>>
    /\ UNCHANGED <<tdev, itValid, iValue, sValue, passFail, cleared, uaf, clearCode>>

\* Lines 130-132: delete device; return.
EndDelete(c) ==
    /\ ~crashed
    /\ cpc[c] = "end_delete"
    /\ alloc' = alloc \ {cdev[c]}
    /\ rec' = [rec EXCEPT ![cdev[c]] = FreeRec]
    /\ cpc' = [cpc EXCEPT ![c] = "end_ret"]
    /\ UNCHANGED <<runningDevices, isRunning, joinable, nThreads, crashed, drvOpen, opened>>
    /\ UNCHANGED <<cdev, cch, cret, cval, cdrv>>
    /\ UNCHANGED threadVars

\* The positions at which an operation has computed its result and returns.
ReturnPoints ==
    {"init_ret", "end_ret", "read_ret", "haserror_ret", "reset_ret", "check_ret",
     "write_ret", "acquire_ret", "release_ret", "max_ret"}

\* The call has returned to the host, which keeps a valid id InitDevice gave it.
Return(c) ==
    /\ ~crashed
    /\ cpc[c] \in ReturnPoints
    /\ opened' = IF cpc[c] = "init_ret" /\ cret[c] # InvalidId
                 THEN opened \cup {cret[c]} ELSE opened
    /\ Call(c, "idle", 0, 0)
    /\ Result(c, 0, 0)
    /\ cdrv' = [cdrv EXCEPT ![c] = <<>>]
    /\ UNCHANGED <<runningDevices, isRunning, joinable, nThreads, crashed, alloc, rec, drvOpen>>
    /\ UNCHANGED threadVars

\* -------------------------------------------------------------------- Read
\* Line 144: the only argument Read rejects is the sentinel id.
ReadRejects(d, ch) == d = InvalidId

\* What a load of an int field yields: an uninitialised one holds any value.
Loaded(x) == IF x = Garbage THEN {0, 1} ELSE {x}

\* A Read that returns the position whatever the channel.
ReadElementFirst(r, ch) == r.inputValues[0]

\* Line 154: device->inputValues[ channel ]; an index past the array reads
\* whatever follows it in memory.
ReadElement(r, ch) == IF ch \in 0..2 THEN r.inputValues[ch] ELSE Garbage

\* The count Read returns for the readStatus it loaded (lines 148-156).
ReadCount(status) == IF status = 0 THEN 0 ELSE 1

\* Lines 142-152: *ref_value = 0.0; the sentinel returns 0; a record whose
\* readStatus is 0 has its readErrorCode printed and returns 0.
ReadStatus(c, chans) ==
    /\ ~crashed
    /\ Idle(c)
    /\ \E d \in opened \cup {InvalidId}, ch \in chans :
         IF ReadRejects(d, ch)
         THEN /\ Call(c, "read_ret", d, ch)
              /\ Result(c, 0, 0)
         ELSE \E st \in Loaded(rec[d].readStatus) :
              /\ Call(c, IF ReadCount(st) = 0 THEN "read_ret" ELSE "read_value", d, ch)
              /\ Result(c, 0, 0)
    /\ UNCHANGED <<crashed, rec, cdrv>>
    /\ UNCHANGED regVars
    /\ UNCHANGED threadVars

\* Lines 154-156: *ref_value = device->inputValues[ channel ]; return 1.
ReadValue(c) ==
    /\ ~crashed
    /\ cpc[c] = "read_value"
    /\ cpc' = [cpc EXCEPT ![c] = "read_ret"]
    /\ Result(c, ReadCount(1), ReadElement(rec[cdev[c]], cch[c]))
    /\ UNCHANGED <<cdev, cch, cdrv, crashed, rec>>
    /\ UNCHANGED regVars
    /\ UNCHANGED threadVars

\* ---------------------------------------------------------------- HasError
\* ST_FAULT of epos/Definitions.h, and the other states the register reports.
ST_FAULT == "ST_FAULT"

DriverStates == {"ST_ENABLED", ST_FAULT}

\* Lines 159-173.  The sentinel is an error.  Otherwise VCS_GetState fills the
\* local `state` when it succeeds; when it fails the error is printed and the
\* local, which was never initialised, is compared all the same: it holds any
\* state.  The call's argument in the log is the state the driver reported.
HasError(c) ==
    /\ ~crashed
    /\ Idle(c)
    /\ \E d \in opened \cup {InvalidId} :
         /\ Call(c, "haserror_ret", d, 0)
         /\ IF d = InvalidId
            THEN /\ Result(c, Bool(TRUE), 0)
                 /\ UNCHANGED cdrv
            ELSE \E st \in {0, 1}, state \in DriverStates :
                 /\ Issue(c, <<DriverCall("VCS_GetState", rec[d].handle, rec[d].nodeId,
                                          IF st # 0 THEN state ELSE "none", st)>>)
                 /\ Result(c, Bool(state = ST_FAULT), 0)
    /\ UNCHANGED <<crashed, rec>>
    /\ UNCHANGED regVars
    /\ UNCHANGED threadVars

\* ------------------------------------------------------------------- Reset
\* Lines 175-186: VCS_ClearFault on the device; a failure is only printed.
Reset(c) ==
    /\ ~crashed
    /\ Idle(c)
    /\ \E d \in opened \cup {InvalidId} :
         /\ Call(c, "reset_ret", d, 0)
         /\ IF d = InvalidId
            THEN UNCHANGED cdrv
            ELSE \E st \in {0, 1} :
                 Issue(c, <<DriverCall("VCS_ClearFault", rec[d].handle, rec[d].nodeId, 0, st)>>)
    /\ UNCHANGED <<cret, cval, crashed, rec>>
    /\ UNCHANGED regVars
    /\ UNCHANGED threadVars

\* ------------------------------------------------------- CheckInputChannel
\* Lines 190-192: the two tests of CheckInputChannel.
CheckRejects(d, ch) == d = InvalidId \/ ch > 2

\* Lines 188-195.
CheckInputChannel(c, chans) ==
    /\ ~crashed
    /\ Idle(c)
    /\ \E d \in opened \cup {InvalidId}, ch \in chans :
         /\ Call(c, "check_ret", d, ch)
         /\ Result(c, Bool(~CheckRejects(d, ch)), 0)
    /\ UNCHANGED <<cdrv, crashed, rec>>
    /\ UNCHANGED regVars
    /\ UNCHANGED threadVars

\* ---------------------------------------------------- GetMaxInputSamplesNumber
\* Lines 135-138: return 1.
GetMaxInputSamplesNumber(c) ==
    /\ ~crashed
    /\ Idle(c)
    /\ \E d \in opened \cup {InvalidId} :
         /\ Call(c, "max_ret", d, 0)
         /\ Result(c, 1, 0)
    /\ UNCHANGED <<cdrv, crashed, rec>>
    /\ UNCHANGED regVars
    /\ UNCHANGED threadVars

\* ------------------------------------------------------------------- Write
\* A set-point is a double; the model counts it in halves, so that 3 is 1.5.
\* (long) value and (short) value drop the fraction.
Narrow(v) == v \div 2

\* A Write that sends every set-point as a position.
WriteCallPosition(ch) == "VCS_SetPositionMust"

\* Lines 207-209: the set-point call of a channel.
WriteCall(ch) ==
    IF ch = 0 THEN "VCS_SetPositionMust"
    ELSE IF ch = 1 THEN "VCS_SetVelocityMust"
    ELSE "VCS_SetCurrentMust"

\* A Write that keeps the set-point in the record, in the place of a reading.
WriteRecordStores(r, ch, v) ==
    [r EXCEPT !.inputValues = [i \in 0..2 |-> IF i = ch THEN Narrow(v) ELSE @[i]]]

\* What Write does to the record: nothing; the store to outputValues of line
\* 203 and the uses of writeStatus and writeErrorCode are commented out.
WriteRecord(r, ch, v) == r

\* Lines 197-220.  status starts at 0 and only a channel in 0..2 makes a driver
\* call; a status of 0 prints the error code (an uninitialised one when no
\* call was made) and returns false.
Write(c, chans, vals) ==
    /\ ~crashed
    /\ Idle(c)
    /\ \E d \in opened \cup {InvalidId}, ch \in chans, v \in vals :
         /\ Call(c, "write_ret", d, ch)
         /\ IF d = InvalidId
            THEN /\ Result(c, Bool(FALSE), v)
                 /\ UNCHANGED <<cdrv, rec>>
            ELSE /\ rec' = [rec EXCEPT ![d] = WriteRecord(@, ch, v)]
                 /\ IF ch \in 0..2
                    THEN \E status \in {0, 1} :
                         /\ Issue(c, <<DriverCall(WriteCall(ch), rec[d].handle,
                                                  rec[d].nodeId, Narrow(v), status)>>)
                         /\ Result(c, Bool(status # 0), v)
                    ELSE /\ Result(c, Bool(FALSE), v)
                         /\ UNCHANGED cdrv
    /\ UNCHANGED crashed
    /\ UNCHANGED regVars
    /\ UNCHANGED threadVars

\* ---------------------------------------------------- AcquireOutputChannel
\* An AcquireOutputChannel that tests the id alone.
AcquireRejectsId(d, ch) == d = InvalidId

\* Lines 224-226: the two tests of AcquireOutputChannel.
AcquireRejects(d, ch) == d = InvalidId \/ ch > 2

\* An AcquireOutputChannel that always asks for the position mode.
ModePosition(ch) == "OMD_POSITION_MODE"

\* Lines 230-232: the operation mode of a channel.
Mode(ch) ==
    IF ch = 2 THEN "OMD_CURRENT_MODE"
    ELSE IF ch = 1 THEN "OMD_VELOCITY_MODE"
    ELSE "OMD_POSITION_MODE"

\* Lines 224-236: the tests, then VCS_SetEnableState; a failure is only printed.
AcquireEnable(c, chans) ==
    /\ ~crashed
    /\ Idle(c)
    /\ \E d \in opened \cup {InvalidId}, ch \in chans :
         IF AcquireRejects(d, ch)
         THEN /\ Call(c, "acquire_ret", d, ch)
              /\ Result(c, Bool(FALSE), 0)
              /\ UNCHANGED cdrv
         ELSE \E st \in {0, 1} :
              /\ Call(c, "acquire_mode", d, ch)
              /\ Issue(c, <<DriverCall("VCS_SetEnableState", rec[d].handle,
                                       rec[d].nodeId, 0, st)>>)
              /\ UNCHANGED <<cret, cval>>
    /\ UNCHANGED <<crashed, rec>>
    /\ UNCHANGED regVars
    /\ UNCHANGED threadVars

\* Lines 237-240: VCS_SetOperationMode; a failure is only printed; return true.
AcquireMode(c) ==
    /\ ~crashed
    /\ cpc[c] = "acquire_mode"
    /\ cpc' = [cpc EXCEPT ![c] = "acquire_ret"]
    /\ \E st \in {0, 1} :
         Issue(c, <<DriverCall("VCS_SetOperationMode", rec[cdev[c]].handle,
                               rec[cdev[c]].nodeId, Mode(cch[c]), st)>>)
    /\ Result(c, Bool(TRUE), 0)
    /\ UNCHANGED <<cdev, cch, crashed, rec>>
    /\ UNCHANGED regVars
    /\ UNCHANGED threadVars

\* ---------------------------------------------------- ReleaseOutputChannel
\* Lines 245-247: the two tests of ReleaseOutputChannel.
ReleaseRejects(d, ch) == d = InvalidId \/ ch > 2

\* Lines 243-256: VCS_SetDisableState; a failure is only printed.
ReleaseOutputChannel(c, chans) ==
    /\ ~crashed
    /\ Idle(c)
    /\ \E d \in opened \cup {InvalidId}, ch \in chans :
         /\ Call(c, "release_ret", d, ch)
         /\ IF ReleaseRejects(d, ch)
            THEN UNCHANGED cdrv
            ELSE \E st \in {0, 1} :
                 Issue(c, <<DriverCall("VCS_SetDisableState", rec[d].handle,
                                       rec[d].nodeId, 0, st)>>)
    /\ UNCHANGED <<cret, cval, crashed, rec>>
    /\ UNCHANGED regVars
    /\ UNCHANGED threadVars

\* ----------------------------------------------------------- AsyncTransfer
\* Line 263: isRunning = true, the first statement of the thread.
ThreadStart ==
    /\ ~crashed
    /\ tpc = "start"
    /\ isRunning' = TRUE
    /\ tpc' = "while"
    /\ UNCHANGED <<runningDevices, joinable, nThreads, crashed, alloc, rec, drvOpen, opened>>
    /\ UNCHANGED callVars
    /\ UNCHANGED <<tdev, itValid, iValue, sValue, passFail, cleared, uaf, clearCode>>

\* Line 265: while( isRunning ); the thread returns when the flag is clear.
ThreadWhile ==
    /\ ~crashed
    /\ tpc = "while"
    /\ IF isRunning
       THEN /\ tpc' = "iter"
            /\ UNCHANGED nThreads
       ELSE /\ tpc' = "done"
            /\ nThreads' = nThreads - 1
    /\ UNCHANGED <<runningDevices, isRunning, joinable, crashed, alloc, rec, drvOpen, opened>>
    /\ UNCHANGED callVars
    /\ UNCHANGED <<tdev, itValid, iValue, sValue, passFail, cleared, uaf, clearCode>>

\* Where the range-for goes from its position: begin() at the start of a pass
\* (tdev = 0), else the successor of the current node; 0 is end().  An
\* iterator whose node remove() has freed reads a dangling link: any node,
\* end(), or a fault (-1).
NextNodes(list, d, valid) ==
    IF d = 0 THEN {Begin(list)}
    ELSE IF valid THEN {After(list, d)}
    ELSE Devices \cup {0, -1}

\* Line 267: for( DeviceData* device : runningDevices ): advance and load *it.
ThreadNext ==
    /\ ~crashed
    /\ tpc = "iter"
    /\ \E nxt \in NextNodes(runningDevices, tdev, itValid) :
         /\ crashed' = (nxt = -1)
         /\ tpc' = IF nxt > 0 THEN "pos" ELSE "while"
         /\ tdev' = IF nxt > 0 THEN nxt ELSE 0
         /\ itValid' = (nxt > 0 => nxt \in Range(runningDevices))
    /\ passFail' = FALSE
    /\ cleared' = FALSE
    /\ uaf' = FALSE
    /\ clearCode' = Garbage
    /\ UNCHANGED <<rec, iValue, sValue>>
    /\ UNCHANGED regVars
    /\ UNCHANGED callVars

\* The statuses the driver's calls return: a driver with no failure code to
\* report is one whose calls all succeed.
Statuses(E) == IF E = {} THEN {1} ELSE {0, 1}

\* One driver read of the current record and the stores of its results:
\* device->readStatus = VCS_Get...( ..., &value, &(device->readErrorCode) );
\* device->inputValues[ ch ] = (double) value.  On a record that EndDevice has
\* deleted the stores go to freed memory.
PollGet(V, E, from, to, ch) ==
    /\ ~crashed
    /\ tpc = from
    /\ tpc' = to
    /\ \E st \in Statuses(E), v \in V, e \in {0} \cup E :
         /\ (st = 0) = (e # 0)
         /\ IF ch = 2 THEN sValue' = v /\ UNCHANGED iValue
                      ELSE iValue' = v /\ UNCHANGED sValue
         /\ passFail' = (passFail \/ st = 0)
         /\ IF tdev \in alloc
            THEN /\ rec' = [rec EXCEPT ![tdev] =
                       [@ EXCEPT !.readStatus = st,
                                 !.readErrorCode = IF st = 0 THEN e ELSE 0,
                                 !.inputValues = [@ EXCEPT ![ch] = v]]]
                 /\ uaf' = FALSE
            ELSE /\ uaf' = TRUE
                 /\ UNCHANGED rec
    /\ UNCHANGED <<crashed, tdev, itValid, cleared, clearCode>>
    /\ UNCHANGED regVars
    /\ UNCHANGED callVars

\* Lines 269-270: VCS_GetPositionIs into inputValues[ 0 ].
PollPosition(V, E) == PollGet(V, E, "pos", "vel", 0)

\* Lines 271-272: VCS_GetVelocityIs into inputValues[ 1 ].
PollVelocity(V, E) == PollGet(V, E, "vel", "cur", 1)

\* Lines 273-274: VCS_GetCurrentIsAveraged into inputValues[ 2 ].
PollCurrent(V, E) == PollGet(V, E, "cur", "fault", 2)

\* The condition of line 276 on the status the thread loads.
NeedsClear(status) == status = 0

\* A clear call whose error code goes to a local of the thread.
DropClearCode(r, e) == r

\* Where VCS_ClearFault puts its error code: &(device->readErrorCode).
StoreClearCode(r, e) == [r EXCEPT !.readErrorCode = e]

\* Line 276: if( device->readStatus == 0 ) VCS_ClearFault( ..., &(device->readErrorCode) ).
PollFault(E) ==
    /\ ~crashed
    /\ tpc = "fault"
    /\ tpc' = "iter"
    /\ IF tdev \in alloc
       THEN /\ uaf' = FALSE
            /\ \E st \in Loaded(rec[tdev].readStatus) :
                 IF NeedsClear(st)
                 THEN /\ cleared' = TRUE
                      /\ \E e \in {0} \cup E :
                           /\ clearCode' = e
                           /\ rec' = [rec EXCEPT ![tdev] = StoreClearCode(@, e)]
                 ELSE UNCHANGED <<cleared, clearCode, rec>>
       ELSE /\ uaf' = TRUE
            /\ \E st \in {0, 1} :
                 IF NeedsClear(st)
                 THEN /\ cleared' = TRUE
                      /\ \E e \in {0} \cup E : clearCode' = e
                 ELSE UNCHANGED <<cleared, clearCode>>
            /\ UNCHANGED rec
    /\ UNCHANGED <<crashed, tdev, itValid, iValue, sValue, passFail>>
    /\ UNCHANGED regVars
    /\ UNCHANGED callVars

\* ---------------------------------------------------------- specifications
InitDevice(c, cap) == InitOpen(c, cap) \/ InitStart(c) \/ InitPush(c)

EndDevice(c) == EndInvalid(c) \/ EndRemove(c) \/ EndStop(c) \/ EndJoin(c) \/ EndDelete(c)

Read(c, chans) == ReadStatus(c, chans) \/ ReadValue(c)

AsyncTransfer(V, E) ==
    \/ ThreadStart
    \/ ThreadWhile
    \/ ThreadNext
    \/ PollPosition(V, E)
    \/ PollVelocity(V, E)
    \/ PollCurrent(V, E)
    \/ PollFault(E)

\* Any caller thread may call at any time.
Next ==
    \/ \E c \in Callers : InitDevice(c, MaxDevices) \/ EndDevice(c) \/ Read(c, {0}) \/ Return(c)
    \/ AsyncTransfer(LifeVals, LifeCodes)

Spec == Init /\ [][Next]_vars

\* The host opens and closes devices, one call at a time, from one thread.
NextSeq ==
    \/ InitDevice(Host, MaxDevices)
    \/ EndDevice(Host)
    \/ Return(Host)
    \/ AsyncTransfer(LifeVals, LifeCodes)

SpecSeq == Init /\ [][NextSeq]_vars

\* One device, every channel index and every driver value.
NextData ==
    \/ InitDevice(Host, 1)
    \/ EndDevice(Host)
    \/ Read(Host, Channels)
    \/ Return(Host)
    \/ AsyncTransfer(DataVals, FailCodes)

SpecData == Init /\ [][NextData]_vars

AcquireOutputChannel(c, chans) == AcquireEnable(c, chans) \/ AcquireMode(c)

\* One device and every operation of the interface, on every channel index.
NextOps ==
    \/ InitDevice(Host, 1)
    \/ EndDevice(Host)
    \/ GetMaxInputSamplesNumber(Host)
    \/ Read(Host, Channels)
    \/ HasError(Host)
    \/ Reset(Host)
    \/ CheckInputChannel(Host, Channels)
    \/ Write(Host, Channels, SetPoints)
    \/ AcquireOutputChannel(Host, Channels)
    \/ ReleaseOutputChannel(Host, Channels)
    \/ Return(Host)
    \/ AsyncTransfer(LifeVals, LifeCodes)

SpecOps == Init /\ [][NextOps]_vars

\* The end-to-end use of a position axis, with a driver whose polling reads all
\* succeed: the host opens and closes devices, acquires and writes channel 0,
\* and reads it back.
HostEndToEnd ==
    \/ InitDevice(Host, MaxDevices)
    \/ EndDevice(Host)
    \/ AcquireOutputChannel(Host, {0})
    \/ Write(Host, {0}, SetPoints)
    \/ Read(Host, {0})
    \/ Return(Host)

NextEndToEnd == HostEndToEnd \/ AsyncTransfer(DataVals, {})

\* Both threads are scheduled: neither is starved while it can take a step.
SpecEndToEnd ==
    /\ Init
    /\ [][NextEndToEnd]_vars
    /\ WF_vars(HostEndToEnd)
    /\ WF_vars(AsyncTransfer(DataVals, {}))

\* The host opens a device and closes it at once, again and again.
HostOpenClose ==
    \/ InitDevice(Host, 1)
    \/ EndRemove(Host)
    \/ EndStop(Host)
    \/ EndJoin(Host)
    \/ EndDelete(Host)
    \/ Return(Host)

NextOpenClose == HostOpenClose \/ AsyncTransfer(LifeVals, LifeCodes)

\* Both threads are scheduled: neither is starved while it can take a step.
SpecOpenClose ==
    /\ Init
    /\ [][NextOpenClose]_vars
    /\ WF_vars(HostOpenClose)
    /\ WF_vars(AsyncTransfer(LifeVals, LifeCodes))

\* ------------------------------------------------------------------ claims
\* An AsyncTransfer thread exists and has not returned.
ThreadAlive == tpc \in {"start", "while", "iter", "pos", "vel", "cur", "fault"}

\* The polling thread is servicing a record (lines 269-276).
InBody == tpc \in {"pos", "vel", "cur", "fault"}

\* The run has left defined behaviour: the process was ended, the polling
\* thread holds an iterator to a freed node, or it has used a freed record.
Undefined == crashed \/ ~itValid \/ uaf

\* C1: an EndDevice that follows InitDevice at once eventually returns, with
\* runningDevices empty and no polling thread left, whatever the interleaving
\* of the caller and the (fairly scheduled) polling thread.  A run that leaves
\* defined behaviour is not held against the claim here, so that what refutes
\* it is a run in which every step of both threads is defined.
C1_OpenCloseTerminates ==
    (cpc[Host] = "end_stop")
        ~> (Undefined \/ (cpc[Host] = "end_ret" /\ runningDevices = <<>> /\ ~ThreadAlive))

\* C2: when EndDevice of the last registered device is past its join (about to
\* delete the record, or returned), the stop was requested and obeyed once:
\* isRunning is false, the one polling thread has returned and been joined,
\* none is left, and the record was still allocated while the thread ran.  No
\* polling thread exists while the host is idle with an empty registry.
C2_JoinBeforeFree ==
    /\ (cpc[Host] \in {"end_delete", "end_ret"} /\ cdev[Host] # InvalidId
            /\ runningDevices = <<>>)
         => /\ ~ThreadAlive
            /\ nThreads = 0
            /\ ~isRunning
            /\ ~joinable
            /\ ~crashed
            /\ cpc[Host] = "end_delete" => cdev[Host] \in alloc
    /\ (Idle(Host) /\ runningDevices = <<>>) => (~ThreadAlive /\ alloc = {})

\* C2 witness: the last EndDevice is past its join, after the thread has
\* serviced the record and returned.
C2_Witness ==
    /\ cpc[Host] = "end_delete"
    /\ runningDevices = <<>>
    /\ tpc = "done"
    /\ rec[cdev[Host]].readStatus # Garbage

\* C3: the polling thread never reads or writes a record that EndDevice has
\* deleted.
C3_NoFreedRecordUse == ~uaf

\* C4: with the host calling one operation at a time there is never more than
\* one polling thread; the step of InitDevice that may start one leaves exactly
\* one, started by it when the registry was empty and already there otherwise.
C4_OneLoop ==
    /\ [](nThreads <= 1)
    /\ [][(cpc[Host] = "init_start" /\ cpc'[Host] = "init_push")
            => /\ nThreads' = 1
               /\ ~crashed'
               /\ nThreads' - nThreads = (IF runningDevices = <<>> THEN 1 ELSE 0)]_vars

\* C4 witness: a second device has been registered and one thread exists.
C4_Witness ==
    /\ cpc[Host] = "init_ret"
    /\ Len(runningDevices) = 2
    /\ nThreads = 1
    /\ ThreadAlive

\* C5: when two callers are both past the thread-starting step of InitDevice,
\* exactly one polling thread has been started, the process is alive, and a
\* caller that has returned finds its record in runningDevices.
C5_ConcurrentInitOneThread ==
    (\A c \in Callers : cpc[c] \in {"init_push", "init_ret"} /\ cdev[c] # InvalidId)
        => /\ nThreads = 1
           /\ ~crashed
           /\ \A c \in Callers : cpc[c] = "init_ret" => cdev[c] \in Range(runningDevices)

\* C6: whenever no InitDevice or EndDevice call is in progress, a polling
\* thread is alive if and only if runningDevices is non-empty.
C6_ThreadIffRegistered ==
    Idle(Host)
        => ((ThreadAlive /\ ~crashed) <=> runningDevices # <<>>)

\* C7: the polling thread's iterator is never invalidated, and the record it
\* is servicing is a member of the registry.
C7_IteratorStaysValid ==
    /\ itValid
    /\ InBody => tdev \in Range(runningDevices)

\* C8: a Read of the sentinel id, or of a channel index above 2, returns 0 at
\* once with the output value 0.0, without going on to load an element of
\* inputValues.  (Stated for records the polling thread has already given a
\* readStatus, so that what refutes it does not rest on an uninitialised field.)
C8_ReadRejectsBadArguments ==
    [][\A c \in Callers :
         (/\ Idle(c)
          /\ cpc'[c] \in {"read_ret", "read_value"}
          /\ \/ cdev'[c] = InvalidId
             \/ cch'[c] > 2 /\ rec[cdev'[c]].readStatus # Garbage)
         => (cpc'[c] = "read_ret" /\ cret'[c] = 0 /\ cval'[c] = 0)]_vars

\* C9: for a valid id and a channel in 0..2, Read goes on to return 1 with the
\* cached inputValues[channel] when the record's readStatus is that of a
\* successful driver read, and returns 0 when it is that of a failed one; no
\* step of Read changes a record or the values the polling thread got from the
\* driver, and its second step never waits.
C9_ReadReturnsCache ==
    /\ [][/\ (Idle(Host) /\ cpc'[Host] \in {"read_ret", "read_value"}
                 /\ cdev'[Host] # InvalidId /\ cch'[Host] <= 2)
              => /\ rec[cdev'[Host]].readStatus = 1 => cpc'[Host] = "read_value"
                 /\ rec[cdev'[Host]].readStatus = 0
                      => (cpc'[Host] = "read_ret" /\ cret'[Host] = 0 /\ cval'[Host] = 0)
                 /\ rec' = rec /\ iValue' = iValue /\ sValue' = sValue
          /\ (cpc[Host] = "read_value" /\ cpc'[Host] = "read_ret" /\ cch[Host] <= 2)
              => /\ cret'[Host] = 1
                 /\ cval'[Host] = rec[cdev[Host]].inputValues[cch[Host]]
                 /\ rec' = rec /\ iValue' = iValue /\ sValue' = sValue]_vars
    /\ []((cpc[Host] = "read_value" /\ ~crashed) => ENABLED ReadValue(Host))

\* C9 witness: a Read of channel 1 has returned 1 with a value the polling
\* thread cached there, different from the cached position.
C9_Witness ==
    /\ cpc[Host] = "read_ret"
    /\ cret[Host] = 1
    /\ cch[Host] = 1
    /\ cval[Host] = 1
    /\ rec[cdev[Host]].inputValues[0] = 0
    /\ rec[cdev[Host]].readStatus = 1

\* C10: when the polling thread has finished servicing a live record, a fault
\* clear was issued if any of the three driver reads of that service failed.
C10_FailedReadCleared ==
    (tpc = "iter" /\ tdev # 0 /\ ~uaf /\ passFail) => cleared

\* C11: when the polling thread has issued the fault clear in its service of a
\* record that is still registered, readErrorCode holds the code that clear
\* call produced once the service is over; and between services nothing
\* changes a record's readErrorCode: only a step of the thread inside its
\* service of that record does, so the code stays until the next pass reads
\* the device again.
C11_ClearCodeKept ==
    /\ []((tpc = "iter" /\ tdev \in alloc /\ itValid /\ ~uaf /\ cleared)
            => rec[tdev].readErrorCode = clearCode)
    /\ [][\A d \in alloc \cap alloc' :
            rec'[d].readErrorCode # rec[d].readErrorCode => (tdev = d /\ InBody)]_vars

\* C11 witness: the current read failed with code 1, the clear succeeded, and
\* the record holds the clear's code 0.
C11_Witness ==
    /\ tpc = "iter"
    /\ tdev \in alloc
    /\ itValid
    /\ cleared
    /\ passFail
    /\ clearCode = 0
    /\ rec[tdev].readStatus = 0
    /\ rec[tdev].readErrorCode = 0

\* A driver call of the caller's current call has failed.
DriverFailed(c) == \E i \in 1..Len(cdrv[c]) : cdrv[c][i].status = 0

\* The caller is in InitDevice (lines 84-109).
InInit(c) == cpc[c] \in {"init_start", "init_push", "init_ret"}

\* C12: an InitDevice one of whose driver calls (open, settings fetch, settings
\* push) has failed is on its way out with the invalid sentinel: it has
\* allocated no record, starts no thread and registers nothing.
C12_InitFailureReturnsInvalid ==
    \A c \in Callers :
        (InInit(c) /\ DriverFailed(c))
            => (cpc[c] = "init_ret" /\ cret[c] = InvalidId /\ cdev[c] \notin alloc)

\* C13: HasError returns true for the sentinel; for a valid id it returns true
\* exactly when the state query succeeded and reported the fault state, so it
\* returns false whenever the query failed.
C13_HasErrorIffFault ==
    (cpc[Host] = "haserror_ret")
        => IF cdev[Host] = InvalidId
           THEN cret[Host] = Bool(TRUE) /\ cdrv[Host] = <<>>
           ELSE /\ Len(cdrv[Host]) = 1
                /\ cdrv[Host][1].call = "VCS_GetState"
                /\ cret[Host] = Bool(cdrv[Host][1].status # 0 /\ cdrv[Host][1].arg = ST_FAULT)

\* C14: a Write that has computed its result has issued exactly one driver
\* call when the id is valid and the channel is 0, 1 or 2: the set-point call
\* of that channel, on the record's handle and node, and it returns true
\* exactly when that call succeeded.  For the sentinel, and for a channel above
\* 2, it has issued no driver call and returns false.  No Write changes a
\* field of a record.
C14_WriteOneSetPoint ==
    /\ []((cpc[Host] = "write_ret")
            => IF cdev[Host] = InvalidId \/ cch[Host] > 2
               THEN cret[Host] = Bool(FALSE) /\ cdrv[Host] = <<>>
               ELSE /\ Len(cdrv[Host]) = 1
                    /\ cdrv[Host][1].call =
                          <<"VCS_SetPositionMust", "VCS_SetVelocityMust",
                            "VCS_SetCurrentMust">>[cch[Host] + 1]
                    /\ cdrv[Host][1].handle = rec[cdev[Host]].handle
                    /\ cdrv[Host][1].nodeId = rec[cdev[Host]].nodeId
                    /\ cret[Host] = Bool(cdrv[Host][1].status # 0))
    /\ [][(Idle(Host) /\ cpc'[Host] = "write_ret")
            => \A d \in alloc :
                 /\ rec'[d].inputValues = rec[d].inputValues
                 /\ rec'[d].readStatus = rec[d].readStatus
                 /\ rec'[d].writeStatus = rec[d].writeStatus
                 /\ rec'[d].writeErrorCode = rec[d].writeErrorCode]_vars

\* C14 witness: a Write on channel 2 has issued the current set-point call,
\* which failed, and returns false.
C14_Witness ==
    /\ cpc[Host] = "write_ret"
    /\ cch[Host] = 2
    /\ Len(cdrv[Host]) = 1
    /\ cdrv[Host][1].call = "VCS_SetCurrentMust"
    /\ cdrv[Host][1].status = 0
    /\ cret[Host] = Bool(FALSE)

\* C15: an AcquireOutputChannel of a valid id and a channel in 0..2 that has
\* computed its result has issued two driver calls: the drive enable, then the
\* operation mode of that channel, whatever the enable returned; it returns
\* true whatever the two calls returned, and once the enable is issued nothing
\* holds back the mode call.
C15_AcquireEnableThenMode ==
    /\ (cpc[Host] = "acquire_ret" /\ cdev[Host] # InvalidId /\ cch[Host] <= 2)
         => /\ Len(cdrv[Host]) = 2
            /\ cdrv[Host][1].call = "VCS_SetEnableState"
            /\ cdrv[Host][2].call = "VCS_SetOperationMode"
            /\ cdrv[Host][2].arg =
                  <<"OMD_POSITION_MODE", "OMD_VELOCITY_MODE",
                    "OMD_CURRENT_MODE">>[cch[Host] + 1]
            /\ \A i \in 1..2 : /\ cdrv[Host][i].handle = rec[cdev[Host]].handle
                               /\ cdrv[Host][i].nodeId = rec[cdev[Host]].nodeId
            /\ cret[Host] = Bool(TRUE)
    /\ (cpc[Host] = "acquire_mode" /\ ~crashed)
         => (Len(cdrv[Host]) = 1 /\ ENABLED AcquireMode(Host))

\* C15 witness: an acquire of channel 2 whose enable call and mode call both
\* failed returns true, the mode asked for being the current mode.
C15_Witness ==
    /\ cpc[Host] = "acquire_ret"
    /\ cch[Host] = 2
    /\ cret[Host] = Bool(TRUE)
    /\ Len(cdrv[Host]) = 2
    /\ cdrv[Host][1].status = 0
    /\ cdrv[Host][2].status = 0
    /\ cdrv[Host][2].arg = "OMD_CURRENT_MODE"

\* C16: CheckInputChannel and AcquireOutputChannel answer alike: false for the
\* sentinel and for a channel above 2, true otherwise; an AcquireOutputChannel
\* or ReleaseOutputChannel with rejected arguments has issued no driver call.
C16_UniformRejection ==
    LET rejected == cdev[Host] = InvalidId \/ cch[Host] > 2 IN
    /\ cpc[Host] \in {"check_ret", "acquire_ret"} => cret[Host] = Bool(~rejected)
    /\ cpc[Host] = "acquire_mode" => ~rejected
    /\ (cpc[Host] \in {"acquire_ret", "release_ret"} /\ rejected) => cdrv[Host] = <<>>

\* C16 witness: an acquire of channel 3 on a valid id is rejected with no
\* driver call.
C16_Witness ==
    /\ cpc[Host] = "acquire_ret"
    /\ cdev[Host] # InvalidId
    /\ cch[Host] = 3
    /\ cret[Host] = Bool(FALSE)
    /\ cdrv[Host] = <<>>

\* A step of one of the host's operations other than InitDevice and EndDevice.
HostOpStep ==
    /\ cpc'[Host] # cpc[Host]
    /\ cpc'[Host] \in {"read_value", "read_ret", "write_ret", "acquire_mode", "acquire_ret",
                       "release_ret", "haserror_ret", "reset_ret", "check_ret", "max_ret"}

\* C18: no step of Read, Write, AcquireOutputChannel, ReleaseOutputChannel,
\* HasError, Reset, CheckInputChannel or GetMaxInputSamplesNumber changes a
\* record; the cached fields of a live record change only in a step of the
\* polling thread inside its service of that record; and the handle and node
\* id of a live record never change.
C18_CacheWrittenByLoopOnly ==
    [][/\ HostOpStep => rec' = rec
       /\ \A d \in alloc \cap alloc' :
            /\ (\/ rec'[d].inputValues # rec[d].inputValues
                \/ rec'[d].readStatus # rec[d].readStatus
                \/ rec'[d].readErrorCode # rec[d].readErrorCode)
                 => (tdev = d /\ InBody /\ tpc' # tpc /\ cpc' = cpc)
            /\ rec'[d].handle = rec[d].handle
            /\ rec'[d].nodeId = rec[d].nodeId]_vars

\* C18 witness: a Write of a set-point 1 has returned true on a record whose
\* cache the polling thread has filled with readings 0.
C18_Witness ==
    /\ cpc[Host] = "write_ret"
    /\ cret[Host] = Bool(TRUE)
    /\ cval[Host] = 2
    /\ rec[cdev[Host]].readStatus = 1
    /\ \A i \in 0..2 : rec[cdev[Host]].inputValues[i] = 0

\* C19: a Read of a valid id and a channel in 0..2 that returns 1 delivers a
\* value the polling thread stored in that element of inputValues, never the
\* content of an element no driver read has been stored in.
C19_ReadDeliversStoredValue ==
    (cpc[Host] = "read_ret" /\ cret[Host] = 1 /\ cdev[Host] # InvalidId /\ cch[Host] <= 2)
        => cval[Host] # Garbage

\* C20: when InitDevice returns the sentinel every open driver handle belongs
\* to a live record; registered records hold distinct handles, all open; and
\* the handle EndDevice passes to VCS_CloseDevice is open until then.
C20_HandlesAccounted ==
    /\ \A c \in Callers :
         (cpc[c] = "init_ret" /\ cret[c] = InvalidId)
            => \A h \in drvOpen : \E d \in alloc : rec[d].handle = h
    /\ \A d \in Range(runningDevices) :
         /\ rec[d].handle \in drvOpen
         /\ \A e \in Range(runningDevices) : rec[e].handle = rec[d].handle => e = d

\* The scenario's Write has returned true: a write of channel 0 of device d
\* whose set-point call succeeded.
Written(d) ==
    /\ cpc[Host] = "write_ret"
    /\ cdev[Host] = d
    /\ cch[Host] = 0
    /\ cret[Host] = Bool(TRUE)

\* C17: with polling reads that all succeed,
\*  (a) a Write of channel 0 that has returned true has passed its set-point
\*      (less its fraction) to VCS_SetPositionMust;
\*  (b) after it, as long as the device stays registered, the polling thread
\*      comes to the end of a service of the device;
\*  (c) a Read of channel 0 of a record the thread has given a readStatus goes
\*      on to return 1 with the cached position, which is the value the driver
\*      reported in the thread's latest position read of the record;
\*  (d) while a device is registered a pass goes through the registry in
\*      order: from the record it has just serviced the thread moves to the one
\*      registered next, from the last one to the end of the pass, and the next
\*      pass starts at the first.
C17_EndToEnd ==
    /\ [](\A d \in Devices :
            Written(d) => /\ Len(cdrv[Host]) = 1
                          /\ cdrv[Host][1].call = "VCS_SetPositionMust"
                          /\ cdrv[Host][1].handle = rec[d].handle
                          /\ cdrv[Host][1].arg = Narrow(cval[Host]))
    /\ \A d \in Devices :
         Written(d) ~> (d \notin Range(runningDevices) \/ (tpc = "iter" /\ tdev = d))
    /\ [][/\ (tpc = "pos" /\ tpc' = "vel" /\ tdev \in alloc)
              => /\ rec'[tdev].readStatus = 1
                 /\ rec'[tdev].inputValues[0] = iValue'
          /\ (Idle(Host) /\ cpc'[Host] \in {"read_ret", "read_value"}
                /\ cdev'[Host] # InvalidId /\ rec[cdev'[Host]].readStatus # Garbage)
              => cpc'[Host] = "read_value"
          /\ (cpc[Host] = "read_value" /\ cpc'[Host] = "read_ret")
              => (cret'[Host] = 1 /\ cval'[Host] = rec[cdev[Host]].inputValues[0])]_vars
    /\ [][(tpc = "iter" /\ tpc' # "iter" /\ runningDevices # <<>>)
            => /\ ~crashed'
               /\ tdev = 0 \/ tdev \in Range(runningDevices)
               /\ tdev' = IF tdev = 0 THEN Begin(runningDevices)
                          ELSE After(runningDevices, tdev)]_vars

====
